---- MODULE Spec2Model ----
(***************************************************************************)
(* Model of anganwadi_v2_bot.py: the in-memory attendance / streak state   *)
(* machine and the summary / awards reports built from it.                 *)
(*                                                                         *)
(* Conventions.                                                            *)
(*  - A date "YYYY-MM-DD" is modelled by its day number (the formatting is *)
(*    injective and the code only compares dates for equality); the three  *)
(*    clock reads of handle_photo (lines 145, 146, 156) happen with no     *)
(*    suspension point in between and are taken at one instant.            *)
(*  - A dict is a function whose DOMAIN is its set of keys; Get is         *)
(*    dict.get(key, default) and Put is dict[key] = value.  NoDate is the  *)
(*    None that last_submission_date[chat_id].get(user_id) returns.        *)
(*  - A handler is one step.  handle_photo and track_new_members have no   *)
(*    suspension point before their last statement; the report builders    *)
(*    read the stores between two awaits in one go, and the date read at   *)
(*    line 170 is taken at the instant the summary is built.               *)
(*  - out is the sequence of sends the last handler attempted (the last    *)
(*    one is the send that raised, if one did); handled says which handler *)
(*    ran and how it ended ("none", "oracle": get_chat_member_count        *)
(*    raised, "send": send_message raised).                                *)
(*  - tasks holds what the event loop has in hand besides the running      *)
(*    handler: a handle_photo suspended at its send (line 163), and the    *)
(*    two jobs of a scheduled tick of a chat: job_summary, suspended at    *)
(*    get_chat_member_count (line 173) until it has answered, and          *)
(*    job_awards, due two minutes after the hour (lines 239-240).  In an   *)
(*    event (JoinEvent, PhotoEvent, ...) nothing is left suspended.        *)
(*  - album_events is a history variable, not program state: the (chat,    *)
(*    date, media group id) of every album photo that passed the gate.     *)
(***************************************************************************)
EXTENDS Integers, Sequences, FiniteSets, TLC

\* ---------------------------------------------------------------- bounds
MaxDay == 3
MaxCount == 3
MaxCrowd == 22

\* ------------------------------------------------------------- universes
Chats == {-1001, -1002}
Users == {11, 12, 13, 14, 15, 16}
CoreUsers == {11, 12}
Crowd == 11..(10 + MaxCrowd)
NoUser == 0
FirstNames == {"Asha", ""}
Times == {"09:15", "17:40"}
NoGroup == "none"
MediaGroups == {"g1"}
Days == 1..MaxDay
Counts == 0..MaxCount
OracleFail == -1

NoDate == -1
NoSub == [name |-> "", time |-> ""]
TopN == 5
PreviewLimit == 20
medals == <<"gold", "silver", "bronze", "military", "sports">>

VARIABLES
    ALLOWED_CHAT_IDS,       \* set of chat ids, fixed at start-up
    today,                  \* the current IST date (day number)
    submissions,            \* [chat -> dict date -> dict user -> [name, time]]
    streaks,                \* [chat -> dict user -> Nat]
    last_submission_date,   \* [chat -> dict user -> date]
    known_users,            \* [chat -> dict user -> name]
    media_group_seen,       \* set of media group ids
    album_events,           \* history: <<chat, date, mgid>> of album photos received
    out,                    \* sends attempted by the last handler
    handled,                \* [op, chat, raised] of the last handler
    tasks                   \* the suspended coroutines and the jobs of a tick

vars == <<ALLOWED_CHAT_IDS, today, submissions, streaks, last_submission_date,
          known_users, media_group_seen, album_events, out, handled, tasks>>

store == <<submissions, streaks, last_submission_date, known_users,
           media_group_seen, album_events>>

\* --------------------------------------------------------------- helpers
EmptyDict == [k \in {} |-> 0]
Get(dict, key, default) == IF key \in DOMAIN dict THEN dict[key] ELSE default
Put(dict, key, value) ==
    [k \in DOMAIN dict \cup {key} |-> IF k = key THEN value ELSE dict[k]]

AnyChatAllowed(chat_id) == TRUE

\* lines 59-62
is_allowed_chat(chat_id) ==
    IF ALLOWED_CHAT_IDS = {} THEN TRUE ELSE chat_id \in ALLOWED_CHAT_IDS

DisplayName(first_name) == IF first_name = "" THEN "User" ELSE first_name

Max(a, b) == IF a >= b THEN a ELSE b
Min(a, b) == IF a <= b THEN a ELSE b

Done(op, c, r) == [op |-> op, chat |-> c, raised |-> r]

Init ==
    /\ ALLOWED_CHAT_IDS \in {{}, {-1001}, Chats}
    /\ today = 1
    /\ submissions = [c \in Chats |-> EmptyDict]
    /\ streaks = [c \in Chats |-> EmptyDict]
    /\ last_submission_date = [c \in Chats |-> EmptyDict]
    /\ known_users = [c \in Chats |-> EmptyDict]
    /\ media_group_seen = {}
    /\ album_events = {}
    /\ out = <<>>
    /\ handled = Done("start_up", 0, "none")
    /\ tasks = {}

\* The IST date rolls over.
Midnight(last) ==
    /\ today < last
    /\ today' = today + 1
    /\ out' = <<>>
    /\ handled' = Done("midnight", 0, "none")
    /\ UNCHANGED <<ALLOWED_CHAT_IDS, store, tasks>>

\* Early return of a handler: nothing is sent, nothing is stored.
Ignored(op, c) ==
    /\ out' = <<>>
    /\ handled' = Done(op, c, "none")
    /\ UNCHANGED <<ALLOWED_CHAT_IDS, today, store>>

\* ------------------------------------------------- membership tracking
MemberStatuses == {"member", "administrator", "left"}

Drop(dict, key) == [k \in DOMAIN dict \ {key} |-> dict[k]]

\* as track_new_members, but a user whose new status is another one is taken
\* off the roster
track_members_pruning(c, u, first_name, status) ==
    IF ~is_allowed_chat(c)
    THEN Ignored("track_new_members", c)
    ELSE /\ known_users' =
              IF status \in {"member", "administrator"}
              THEN [known_users EXCEPT
                        ![c] = Put(@, u, DisplayName(first_name))]
              ELSE [known_users EXCEPT ![c] = Drop(@, u)]
         /\ out' = <<>>
         /\ handled' = Done("track_new_members", c, "none")
         /\ UNCHANGED <<ALLOWED_CHAT_IDS, today, submissions, streaks,
                        last_submission_date, media_group_seen, album_events>>

\* lines 108-116
track_new_members(c, u, first_name, status) ==
    IF ~is_allowed_chat(c)
    THEN Ignored("track_new_members", c)
    ELSE /\ known_users' =
              IF status \in {"member", "administrator"}
              THEN [known_users EXCEPT
                        ![c] = Put(@, u, DisplayName(first_name))]
              ELSE known_users
         /\ out' = <<>>
         /\ handled' = Done("track_new_members", c, "none")
         /\ UNCHANGED <<ALLOWED_CHAT_IDS, today, submissions, streaks,
                        last_submission_date, media_group_seen, album_events>>

\* ------------------------------------------------------ photo handling
AlreadySubmittedNever(c, u) == FALSE

\* lines 148-149: user_id in submissions[chat_id][date], after setdefault
AlreadySubmitted(c, u) == u \in DOMAIN Get(submissions[c], today, EmptyDict)

NewStreakNoReset(c, u) == Get(streaks[c], u, 0) + 1

\* lines 155-160: the streak after a submission recorded today
NewStreak(c, u) ==
    IF Get(last_submission_date[c], u, NoDate) = today - 1
    THEN Get(streaks[c], u, 0) + 1
    ELSE 1

Confirmation(c, name) == [kind |-> "confirm", chat |-> c, name |-> name]

handle_photo(c, u, first_name, now, mgid, F) ==
    IF ~is_allowed_chat(c)
    THEN Ignored("handle_photo", c)
    ELSE
    /\ album_events' = IF mgid # NoGroup
                       THEN album_events \cup {<<c, today, mgid>>}
                       ELSE album_events
    /\ UNCHANGED <<ALLOWED_CHAT_IDS, today>>
    /\ IF mgid # NoGroup /\ mgid \in media_group_seen
       THEN \* lines 133-134: a later photo of an album already seen
            /\ out' = <<>>
            /\ handled' = Done("handle_photo", c, "none")
            /\ UNCHANGED <<submissions, streaks, last_submission_date,
                           known_users, media_group_seen>>
       ELSE
       /\ media_group_seen' = IF mgid # NoGroup
                              THEN media_group_seen \cup {mgid}
                              ELSE media_group_seen
       /\ IF u = NoUser
          THEN \* lines 137-139
               /\ out' = <<>>
               /\ handled' = Done("handle_photo", c, "none")
               /\ UNCHANGED <<submissions, streaks, last_submission_date, known_users>>
          ELSE
          LET name == DisplayName(first_name) IN
          /\ known_users' = [known_users EXCEPT ![c] = Put(@, u, name)]
          /\ IF AlreadySubmitted(c, u)
             THEN \* lines 149-151
                  /\ out' = <<>>
                  /\ handled' = Done("handle_photo", c, "none")
                  /\ UNCHANGED <<submissions, streaks, last_submission_date>>
             ELSE
             /\ submissions' = [submissions EXCEPT ![c] =
                    Put(@, today, Put(Get(@, today, EmptyDict), u,
                                      [name |-> name, time |-> now]))]
             /\ streaks' = [streaks EXCEPT ![c] = Put(@, u, NewStreak(c, u))]
             /\ last_submission_date' =
                    [last_submission_date EXCEPT ![c] = Put(@, u, today)]
             /\ out' = <<Confirmation(c, name)>>
             /\ \E send_ok \in F :
                    handled' = Done("handle_photo", c,
                                    IF send_ok THEN "none" ELSE "send")

\* ------------------------------------------------- summary and awards
\* set(known_users[chat_id].keys())
member_ids(c) == DOMAIN known_users[c]

\* set(submissions[chat_id].get(date, {}).keys())
today_ids(c) == DOMAIN Get(submissions[c], today, EmptyDict)

PendingCountRaw(total_members, submitted) == total_members - submitted

\* line 179
PendingCount(total_members, submitted) == Max(0, total_members - submitted)

\* The order in which a Python set of user ids is iterated is not fixed by the
\* code; a report takes it as an input: an enumeration of Users, of which the
\* ids of the set are read in turn.
Ascending == <<11, 12, 13, 14, 15, 16>>
Descending == <<16, 15, 14, 13, 12, 11>>
IterationOrders == {Ascending, Descending, <<13, 16, 11, 14, 12, 15>>}

\* sorted(..., key=lambda x: x[1], reverse=True) is stable: an entry goes in
\* front of the first later entry whose count is not larger.
RECURSIVE InsertDesc(_, _)
InsertDesc(e, sorted) ==
    IF sorted = <<>> THEN <<e>>
    ELSE IF Head(sorted)[2] <= e[2] THEN <<e>> \o sorted
    ELSE <<Head(sorted)>> \o InsertDesc(e, Tail(sorted))

RECURSIVE SortedDesc(_)
SortedDesc(list) ==
    IF list = <<>> THEN <<>>
    ELSE InsertDesc(Head(list), SortedDesc(Tail(list)))

Unsorted(list) == list

\* the sort of lines 183-187 and 210-214
SortByStreak(list) == SortedDesc(list)

\* [:5]
Truncate(list) == SubSeq(list, 1, Min(TopN, Len(list)))

\* lines 183-187 / 210-214: top_streaks, for the set ids iterated in order
TopStreaks(c, ids, order) ==
    LET in_set(u) == u \in ids
        listed == SelectSeq(order, in_set)
    IN Truncate(SortByStreak([i \in 1..Len(listed) |->
                                <<listed[i], Get(streaks[c], listed[i], 0)>>]))

\* line 191: if count > 0
Listed(count) == count > 0

\* lines 189-192: one line per entry of top_streaks with a positive count,
\* numbered by its place in top_streaks
Leaderboard(c, top) ==
    LET lines == [i \in 1..Len(top) |->
                    [rank |-> i, uid |-> top[i][1],
                     name |-> Get(known_users[c], top[i][1], "User"),
                     count |-> top[i][2]]]
        keep(l) == Listed(l.count)
    IN SelectSeq(lines, keep)

\* lines 194-201: the figures of the text; no_data_yet says that the
\* placeholder stands where the leaderboard would
Summary(c, total_members, top) ==
    LET board == Leaderboard(c, top) IN
    [kind |-> "summary", chat |-> c,
     total |-> total_members,
     submitted |-> Cardinality(today_ids(c)),
     pending |-> PendingCount(total_members, Cardinality(today_ids(c))),
     leaderboard |-> board,
     no_data_yet |-> (board = <<>>)]

\* lines 169-206: what post_summary_for_chat sends and how it ends
post_summary_for_chat(c, count, top, send_ok) ==
    IF count = OracleFail
    THEN [sent |-> <<>>, raised |-> "oracle"]
    ELSE [sent |-> <<Summary(c, count, top)>>,
          raised |-> IF send_ok THEN "none" ELSE "send"]

AnnouncementsNoGuard(c, top) ==
    [i \in 1..Len(top) |->
        [kind |-> "award", chat |-> c, medal |-> medals[i], rank |-> i,
         uid |-> top[i][1], name |-> Get(known_users[c], top[i][1], "User <id>"),
         count |-> top[i][2]]]

\* lines 215-220: the announcements of the awards pass, in order
Announcements(c, top) ==
    IF top = <<>> \/ top[1][2] = 0 THEN <<>>
    ELSE [i \in 1..Len(top) |->
            [kind |-> "award", chat |-> c, medal |-> medals[i], rank |-> i,
             uid |-> top[i][1],
             name |-> Get(known_users[c], top[i][1], "User <id>"),
             count |-> top[i][2]]]

\* lines 208-222: fail_at is the send that raises (0: none does)
post_awards_for_chat(c, top, fail_at) ==
    LET all == Announcements(c, top) IN
    IF fail_at = 0
    THEN [sent |-> all, raised |-> "none"]
    ELSE [sent |-> SubSeq(all, 1, fail_at), raised |-> "send"]

FailPoints(c, top, F) ==
    IF FALSE \in F THEN 0..Len(Announcements(c, top)) ELSE {0}

\* lines 84-90
cmd_report(c, count, F, P) ==
    IF ~is_allowed_chat(c)
    THEN Ignored("cmd_report", c)
    ELSE \E order1 \in P,
            send_ok \in (IF count = OracleFail THEN {TRUE} ELSE F) :
         LET top1 == TopStreaks(c, member_ids(c) \cup today_ids(c), order1)
             s == post_summary_for_chat(c, count, top1, send_ok) IN
         /\ IF s.raised # "none"
            THEN /\ out' = s.sent
                 /\ handled' = Done("cmd_report", c, s.raised)
            ELSE \E order2 \in P :
                 LET top2 == TopStreaks(c, member_ids(c), order2) IN
                 \E fail_at \in FailPoints(c, top2, F) :
                 LET a == post_awards_for_chat(c, top2, fail_at) IN
                 /\ out' = s.sent \o a.sent
                 /\ handled' = Done("cmd_report", c, a.raised)
         /\ UNCHANGED <<ALLOWED_CHAT_IDS, today, store>>

\* lines 225-226; scheduled for the chats of the allow-list only (234-240)
job_summary(c, count, F, P) ==
    /\ c \in ALLOWED_CHAT_IDS
    /\ \E order \in P,
          send_ok \in (IF count = OracleFail THEN {TRUE} ELSE F) :
       LET top == TopStreaks(c, member_ids(c) \cup today_ids(c), order)
           s == post_summary_for_chat(c, count, top, send_ok) IN
       /\ out' = s.sent
       /\ handled' = Done("job_summary", c, s.raised)
    /\ UNCHANGED <<ALLOWED_CHAT_IDS, today, store>>

\* lines 228-229
job_awards(c, F, P) ==
    /\ c \in ALLOWED_CHAT_IDS
    /\ \E order \in P :
       LET top == TopStreaks(c, member_ids(c), order) IN
       \E fail_at \in FailPoints(c, top, F) :
       LET a == post_awards_for_chat(c, top, fail_at) IN
       /\ out' = a.sent
       /\ handled' = Done("job_awards", c, a.raised)
    /\ UNCHANGED <<ALLOWED_CHAT_IDS, today, store>>

\* ------------------------------------------------------------ commands
Welcome(c) == [kind |-> "welcome", chat |-> c]
ChatIdReply(c) == [kind |-> "chat_id", chat |-> c, text |-> c]
MembersReply(c, count) == [kind |-> "members", chat |-> c, count |-> count]

\* a handler whose only effect is one reply
Replies(op, c, msg, F) ==
    /\ out' = <<msg>>
    /\ \E send_ok \in F :
           handled' = Done(op, c, IF send_ok THEN "none" ELSE "send")
    /\ UNCHANGED <<ALLOWED_CHAT_IDS, today, store>>

\* lines 65-69
start(c, F) ==
    IF ~is_allowed_chat(c)
    THEN Ignored("start", c)
    ELSE Replies("start", c, Welcome(c), F)

\* lines 71-75: no gate
cmd_id(c, F) == Replies("cmd_id", c, ChatIdReply(c), F)

\* lines 77-82
cmd_members(c, count, F) ==
    IF ~is_allowed_chat(c)
    THEN Ignored("cmd_members", c)
    ELSE IF count = OracleFail
    THEN /\ out' = <<>>
         /\ handled' = Done("cmd_members", c, "oracle")
         /\ UNCHANGED <<ALLOWED_CHAT_IDS, today, store>>
    ELSE Replies("cmd_members", c, MembersReply(c, count), F)

AllMembers(c, order) ==
    LET is_member(u) == u \in member_ids(c) IN SelectSeq(order, is_member)

\* line 99: [uid for uid in member_ids if uid not in today_ids], the set
\* member_ids iterated in order
pending_ids(c, order) ==
    LET is_pending(u) == u \in member_ids(c) /\ u \notin today_ids(c)
    IN SelectSeq(order, is_pending)

\* line 100
PendingNames(c, order) ==
    LET ids == pending_ids(c, order) IN
    [i \in 1..Len(ids) |-> Get(known_users[c], ids[i], "User <id>")]

NothingPending(c) == [kind |-> "nothing_pending", chat |-> c]

\* lines 104-105: the count, the names shown and whether the ellipsis follows
PendingReply(c, names) ==
    [kind |-> "pending", chat |-> c, count |-> Len(names),
     preview |-> SubSeq(names, 1, Min(PreviewLimit, Len(names))),
     ellipsis |-> Len(names) > PreviewLimit]

\* lines 92-105
cmd_pending(c, F, P) ==
    IF ~is_allowed_chat(c)
    THEN Ignored("cmd_pending", c)
    ELSE \E order \in P :
         LET names == PendingNames(c, order) IN
         IF names = <<>>
         THEN Replies("cmd_pending", c, NothingPending(c), F)
         ELSE Replies("cmd_pending", c, PendingReply(c, names), F)

\* ---------------------------------------------------------- the events
\* An event is a handler run from its first statement to its last with no
\* other handler in between: no coroutine is left suspended.
JoinEvent(C, U, N) ==
    /\ \E c \in C, u \in U, first_name \in N, status \in MemberStatuses :
           track_new_members(c, u, first_name, status)
    /\ UNCHANGED tasks

PhotoEvent(C, U, N, T, G, F) ==
    /\ \E c \in C, u \in U, first_name \in N, now \in T, mgid \in G :
           handle_photo(c, u, first_name, now, mgid, F)
    /\ UNCHANGED tasks

ReportEvent(C, K, F, P) ==
    /\ \E c \in C, count \in K : cmd_report(c, count, F, P)
    /\ UNCHANGED tasks

SummaryJob(C, K, F, P) ==
    /\ \E c \in C, count \in K : job_summary(c, count, F, P)
    /\ UNCHANGED tasks

AwardsJob(C, F, P) ==
    /\ \E c \in C : job_awards(c, F, P)
    /\ UNCHANGED tasks

StartEvent(C, F) == (\E c \in C : start(c, F)) /\ UNCHANGED tasks

IdEvent(C, F) == (\E c \in C : cmd_id(c, F)) /\ UNCHANGED tasks

MembersEvent(C, K, F) ==
    /\ \E c \in C, count \in K : cmd_members(c, count, F)
    /\ UNCHANGED tasks

PendingEvent(C, F, P) == (\E c \in C : cmd_pending(c, F, P)) /\ UNCHANGED tasks

\* One chat, two users: one with every name and time, albums included.
Next ==
    \/ Midnight(MaxDay - 1)
    \/ JoinEvent({-1001}, CoreUsers, FirstNames)
    \/ PhotoEvent({-1001}, {11}, FirstNames, Times,
                  MediaGroups \cup {NoGroup}, BOOLEAN)
    \/ PhotoEvent({-1001}, {12}, {"Asha"}, {"09:15"}, {NoGroup}, {TRUE})

Spec == Init /\ [][Next]_vars

\* Photos only, over MaxDay days, in both chats.
NextStreak ==
    \/ Midnight(MaxDay)
    \/ PhotoEvent(Chats, CoreUsers, {"Asha"}, {"09:15"}, {NoGroup}, {TRUE})

SpecStreak == Init /\ [][NextStreak]_vars

\* Albums in both chats and on several days.
NextAlbum ==
    \/ Midnight(MaxDay - 1)
    \/ PhotoEvent(Chats, CoreUsers, {"Asha"}, {"09:15"},
                  MediaGroups \cup {NoGroup}, {TRUE})

SpecAlbum == Init /\ [][NextAlbum]_vars

\* Joins, photos and every way of asking for a report, in one chat.
NextReport ==
    \/ Midnight(MaxDay - 1)
    \/ JoinEvent({-1001}, CoreUsers, {"Asha"})
    \/ PhotoEvent({-1001}, CoreUsers, {"Asha"}, {"09:15"}, {NoGroup}, {TRUE})
    \/ ReportEvent({-1001}, Counts \cup {OracleFail}, BOOLEAN,
                   {Ascending, Descending})
    \/ SummaryJob({-1001}, Counts \cup {OracleFail}, BOOLEAN,
                  {Ascending, Descending})
    \/ AwardsJob({-1001}, BOOLEAN, {Ascending, Descending})

SpecReport == Init /\ [][NextReport]_vars

\* Six users: all may post on the first day, two keep posting afterwards, two
\* may also join without posting.
NextBoard ==
    \/ Midnight(MaxDay - 1)
    \/ JoinEvent({-1001}, {15, 16}, {"Asha"})
    \/ (today = 1 /\ PhotoEvent({-1001}, Users, {"Asha"}, {"09:15"}, {NoGroup}, {TRUE}))
    \/ PhotoEvent({-1001}, {11, 12}, {"Asha"}, {"09:15"}, {NoGroup}, {TRUE})
    \/ SummaryJob({-1001}, {MaxCount}, {TRUE}, IterationOrders)
    \/ AwardsJob({-1001}, BOOLEAN, IterationOrders)

SpecBoard == Init /\ [][NextBoard]_vars
\* Every kind of event in both chats, under each allow-list.
NextGate ==
    \/ Midnight(MaxDay - 1)
    \/ JoinEvent(Chats, {11}, {"Asha"})
    \/ PhotoEvent(Chats, {11}, {"Asha"}, {"09:15"},
                  MediaGroups \cup {NoGroup}, {TRUE})
    \/ StartEvent(Chats, BOOLEAN)
    \/ IdEvent(Chats, BOOLEAN)
    \/ MembersEvent(Chats, {MaxCount, OracleFail}, {TRUE})
    \/ ReportEvent(Chats, {MaxCount, OracleFail}, {TRUE}, {Ascending})
    \/ PendingEvent(Chats, {TRUE}, {Ascending})

SpecGate == Init /\ [][NextGate]_vars
\* A large group: the users of Crowd join one after the other under distinct
\* first names, the first two post, and pending is asked for.
FirstNameOf(u) == ToString(u)
CrowdAscending == [i \in 1..MaxCrowd |-> 10 + i]
CrowdDescending == [i \in 1..MaxCrowd |-> 11 + MaxCrowd - i]

NextPending ==
    \/ Midnight(MaxDay - 1)
    \/ \E u \in Crowd :
           /\ u = 11 \/ u - 1 \in member_ids(-1001)
           /\ track_new_members(-1001, u, FirstNameOf(u), "member")
           /\ UNCHANGED tasks
    \/ \E u \in CoreUsers :
           /\ handle_photo(-1001, u, FirstNameOf(u), "09:15", NoGroup, {TRUE})
           /\ UNCHANGED tasks
    \/ PendingEvent({-1001}, {TRUE}, {CrowdAscending, CrowdDescending})

SpecPending == Init /\ [][NextPending]_vars
\* ------------------------------------------------ suspension points
Task(op, c, u, pc) == [op |-> op, chat |-> c, user |-> u, pc |-> pc]

TickTasks(c) == {t \in tasks : t.chat = c /\ t.op \in {"job_summary", "job_awards"}}

\* lines 234-240, at hh:00: job_summary of chat cid starts and suspends at the
\* live count; job_awards of the same tick is due at hh:02.  The ticks of a
\* chat are four hours apart: the one before is over.
tick(c) ==
    /\ c \in ALLOWED_CHAT_IDS
    /\ TickTasks(c) = {}
    /\ tasks' = tasks \cup {Task("job_summary", c, NoUser, "count"),
                            Task("job_awards", c, NoUser, "due")}
    /\ out' = <<>>
    /\ handled' = Done("tick", c, "none")
    /\ UNCHANGED <<ALLOWED_CHAT_IDS, today, store>>

\* lines 173-206 of the job_summary of the tick: the count answers (or
\* raises), the summary is built from the stores as they are now and sent
job_summary_resumes(c, count, F, P) ==
    LET t == Task("job_summary", c, NoUser, "count") IN
    /\ t \in tasks
    /\ job_summary(c, count, F, P)
    /\ tasks' = IF Task("job_awards", c, NoUser, "due") \in tasks
                THEN (tasks \ {t}) \cup
                     {Task("job_summary", c, NoUser,
                           IF handled'.raised = "none" THEN "sent" ELSE "raised")}
                ELSE tasks \ {t}

\* hh:02: job_awards of the tick runs, wherever job_summary stands; the tick
\* is over once both have run
job_awards_runs(c, F, P) ==
    /\ Task("job_awards", c, NoUser, "due") \in tasks
    /\ job_awards(c, F, P)
    /\ tasks' = tasks \ (TickTasks(c) \ {Task("job_summary", c, NoUser, "count")})

\* lines 122-163: handle_photo up to its only suspension point, the send of
\* the confirmation, which is left in flight
handle_photo_suspends(c, u, first_name, now, mgid) ==
    /\ handle_photo(c, u, first_name, now, mgid, {TRUE})
    /\ tasks' = IF out' # <<>>
                THEN tasks \cup {Task("handle_photo", c, u, "send")}
                ELSE tasks

\* lines 163-166: the send of a suspended handle_photo returns or raises
send_returns(t, send_ok) ==
    /\ t \in tasks
    /\ t.op = "handle_photo"
    /\ tasks' = tasks \ {t}
    /\ out' = <<>>
    /\ handled' = Done("send_message", t.chat, IF send_ok THEN "none" ELSE "send")
    /\ UNCHANGED <<ALLOWED_CHAT_IDS, today, store>>

\* Photos whose confirmations are in flight, the scheduled ticks of a chat
\* with the two jobs apart, and the report command.
NextTasks ==
    \/ Midnight(MaxDay - 1)
    \/ \E u \in CoreUsers :
           handle_photo_suspends(-1001, u, "Asha", "09:15", NoGroup)
    \/ \E t \in tasks, send_ok \in BOOLEAN : send_returns(t, send_ok)
    \/ tick(-1001)
    \/ \E count \in {MaxCount, OracleFail} :
           job_summary_resumes(-1001, count, BOOLEAN, {Ascending})
    \/ job_awards_runs(-1001, {TRUE}, {Ascending})
    \/ ReportEvent({-1001}, {MaxCount, OracleFail}, {TRUE}, {Ascending})

SpecTasks == Init /\ [][NextTasks]_vars
\* Photos with and without a resolvable user, albums included.
NextActor ==
    \/ Midnight(MaxDay - 1)
    \/ PhotoEvent(Chats, CoreUsers \cup {NoUser}, {"Asha"}, {"09:15"},
                  MediaGroups \cup {NoGroup}, {TRUE})

SpecActor == Init /\ [][NextActor]_vars
\* =================================================================
\* Properties
\* =================================================================
SubmissionOf(subs, c, d, u) == Get(Get(subs[c], d, EmptyDict), u, NoSub)
Recorded(c, d, u) == SubmissionOf(submissions, c, d, u) # NoSub
StreakOf(c, u) == Get(streaks[c], u, 0)
LastDateOf(c, u) == Get(last_submission_date[c], u, NoDate)

\* C1: there is one Submission cell per (chat, date, user), and once it is
\* filled (by the user's first accepted photo of that day) no later event
\* changes its stored name or time; a step records at most one Submission.
C1_FirstPhotoWins ==
    [][submissions' # submissions =>
          /\ \A c \in Chats, d \in Days, u \in Users :
                Recorded(c, d, u) =>
                    SubmissionOf(submissions', c, d, u)
                        = SubmissionOf(submissions, c, d, u)
          /\ Cardinality({x \in Chats \X Days \X Users :
                             SubmissionOf(submissions', x[1], x[2], x[3])
                                 # SubmissionOf(submissions, x[1], x[2], x[3])})
                 = 1]_vars

\* C1 witness: user 11 posted as "Asha" today, a later photo of the same day
\* carrying another name and another time was handled, and the record is the
\* first one.
C1_Witness ==
    /\ SubmissionOf(submissions, -1001, today, 11)
           = [name |-> "Asha", time |-> "09:15"]
    /\ member_ids(-1001) = {11}
    /\ known_users[-1001][11] = "User"
    /\ handled = Done("handle_photo", -1001, "none")
    /\ out = <<>>

\* C2: whenever a Submission of user u in chat c is recorded today, the new
\* streak is the previous streak + 1 if u's last submission date in c is
\* yesterday, and 1 otherwise.
C2_StreakLaw ==
    [][\A c \in Chats, u \in Users :
          (/\ ~Recorded(c, today, u)
           /\ SubmissionOf(submissions', c, today, u) # NoSub) =>
              /\ today' = today
              /\ Get(streaks'[c], u, 0) =
                    IF LastDateOf(c, u) = today - 1
                    THEN StreakOf(c, u) + 1
                    ELSE 1
              /\ Get(last_submission_date'[c], u, NoDate) = today]_vars

\* C2 witness: user 11 submitted on day 1, missed day 2 and submitted on day 3
\* (streak 1, not 2), while user 12 submitted on all three days (streak 3).
C2_Witness ==
    /\ today = 3
    /\ Recorded(-1001, 1, 11) /\ ~Recorded(-1001, 2, 11) /\ Recorded(-1001, 3, 11)
    /\ StreakOf(-1001, 11) = 1
    /\ Recorded(-1001, 1, 12) /\ Recorded(-1001, 2, 12) /\ Recorded(-1001, 3, 12)
    /\ StreakOf(-1001, 12) = 3

\* C3: a photo event of a user who already has a Submission for (chat, today)
\* leaves the streak, the last submission date and the roster, stored display
\* name included, unchanged.
C3_DuplicateChangesNothing ==
    [][\A c \in Chats, u \in Users, first_name \in FirstNames, now \in Times,
          mgid \in MediaGroups \cup {NoGroup} :
          (/\ is_allowed_chat(c)
           /\ Recorded(c, today, u)
           /\ handle_photo(c, u, first_name, now, mgid, BOOLEAN))
          => UNCHANGED <<streaks, last_submission_date, known_users>>]_vars

\* C4: the first photo of an album (a media group id not yet received in this
\* chat today), sent by a user with no Submission today, records exactly one
\* Submission, updates the streak once and sends one confirmation; every
\* later photo of that album changes no state and sends nothing.
C4_AlbumCollapse ==
    [][\A c \in Chats, u \in Users, first_name \in FirstNames, now \in Times,
          mgid \in MediaGroups :
          (/\ is_allowed_chat(c)
           /\ handle_photo(c, u, first_name, now, mgid, BOOLEAN))
          => IF <<c, today, mgid>> \notin album_events
             THEN ~Recorded(c, today, u) =>
                      /\ SubmissionOf(submissions', c, today, u) # NoSub
                      /\ Get(streaks'[c], u, 0) = NewStreak(c, u)
                      /\ Len(out') = 1
             ELSE /\ UNCHANGED <<submissions, streaks, last_submission_date,
                                 known_users, media_group_seen>>
                  /\ out' = <<>>]_vars

\* The messages of one kind among the sends of the last handler, in order.
Sent(kind) == LET is_kind(m) == m.kind = kind IN SelectSeq(out, is_kind)

\* The last handler ran the awards pass: the awards job, or a report command
\* whose summary was sent.
AwardsPassRan ==
    \/ handled.op = "job_awards"
    \/ /\ handled.op = "cmd_report"
       /\ handled.raised # "oracle"
       /\ ~(handled.raised = "send" /\ Len(out) = 1 /\ out[1].kind = "summary")

SummaryRequested == handled.op \in {"cmd_report", "job_summary"}

PositiveMembers(c) == {u \in member_ids(c) : StreakOf(c, u) > 0}

\* C5: in every summary, pending = max(0, total - |todayIds|) for the total
\* the summary shows, and it is never negative.
C5_PendingFigure ==
    \A i \in 1..Len(out) :
        out[i].kind = "summary" =>
            LET m == out[i]
                n == Cardinality(today_ids(m.chat))
            IN /\ m.submitted = n
               /\ m.pending = (IF m.total > n THEN m.total - n ELSE 0)
               /\ m.pending >= 0

\* C5 witness: a summary for a chat where more users submitted today than the
\* live count reports.
C5_Witness ==
    \E i \in 1..Len(out) :
        /\ out[i].kind = "summary"
        /\ out[i].total < out[i].submitted
        /\ out[i].pending = 0

\* C6: the leaderboard of a summary lists at most 5 users known to the chat,
\* with their streaks, all positive, in non-increasing order, no user left
\* out in favour of a listed user with a smaller streak; the placeholder
\* stands in for it exactly when no known user has a positive streak.
C6_Leaderboard ==
    \A i \in 1..Len(out) :
        out[i].kind = "summary" =>
            LET c == out[i].chat
                board == out[i].leaderboard
                listed == {board[j].uid : j \in 1..Len(board)}
            IN /\ Len(board) <= TopN
               /\ Cardinality(listed) = Len(board)
               /\ \A j \in 1..Len(board) :
                     /\ board[j].uid \in member_ids(c)
                     /\ board[j].count = StreakOf(c, board[j].uid)
                     /\ board[j].name = known_users[c][board[j].uid]
                     /\ board[j].count > 0
                     /\ j > 1 => board[j - 1].count >= board[j].count
                     /\ \A v \in member_ids(c) \ listed :
                           StreakOf(c, v) <= board[j].count
               /\ (PositiveMembers(c) \ listed # {}) => Len(board) = TopN
               /\ out[i].no_data_yet <=> (PositiveMembers(c) = {})
               /\ out[i].no_data_yet <=> (board = <<>>)

\* C6 witness: six users with a positive streak, five of them listed, from a
\* streak of 2 down to a streak of 1.
C6_Witness ==
    \E i \in 1..Len(out) :
        /\ out[i].kind = "summary"
        /\ Cardinality(PositiveMembers(out[i].chat)) = 6
        /\ Len(out[i].leaderboard) = 5
        /\ out[i].leaderboard[1].count = 2
        /\ out[i].leaderboard[5].count = 1

\* C7: no awards announcement is made for a user whose streak is <= 0.
C7_NoAwardWithoutStreak ==
    \A i \in 1..Len(out) : out[i].kind = "award" => out[i].count > 0

\* C8: the awards pass announces nothing when the roster is empty or the
\* highest streak is 0; otherwise it makes between 1 and 5 announcements,
\* numbered from 1 in order, with non-increasing streaks and a distinct badge
\* per rank.
C8_AwardsSequence ==
    AwardsPassRan =>
        LET aw == Sent("award")
            c == handled.chat
        IN /\ (PositiveMembers(c) = {}) => aw = <<>>
           /\ (PositiveMembers(c) # {}) => (1 <= Len(aw) /\ Len(aw) <= TopN)
           /\ \A j \in 1..Len(aw) :
                 /\ aw[j].rank = j
                 /\ aw[j].chat = c
                 /\ j > 1 => aw[j - 1].count >= aw[j].count
                 /\ \A k \in 1..Len(aw) : k # j => aw[k].medal # aw[j].medal

\* C8 witness: an awards pass with five announcements, from a streak of 2 down.
C8_Witness ==
    /\ AwardsPassRan
    /\ handled.raised = "none"
    /\ Len(Sent("award")) = 5
    /\ Sent("award")[1].count = 2
    /\ Sent("award")[5].count < 2

\* C9: when the live member count call fails, a summary is still produced,
\* with the size of the chat's roster as its total.
C9_OracleFallback ==
    (SummaryRequested /\ handled.raised = "oracle") =>
        \E i \in 1..Len(out) :
            /\ out[i].kind = "summary"
            /\ out[i].total = Cardinality(member_ids(handled.chat))

\* The ranks an awards pass has to announce at least: one per user with a
\* positive streak, up to five.
AwardsDue(c) == Min(TopN, Cardinality(PositiveMembers(c)))

\* C10: a failed send does not end the awards pass: the announcement of every
\* rank of the pass is attempted.
C10_AllAwardsAttempted ==
    AwardsPassRan => Len(Sent("award")) >= AwardsDue(handled.chat)

\* The policy of the allow-list, stated apart from is_allowed_chat.
Permitted(c) == ALLOWED_CHAT_IDS = {} \/ c \in ALLOWED_CHAT_IDS

GatedOps == {"handle_photo", "track_new_members", "start", "cmd_members",
             "cmd_report", "cmd_pending"}

\* C11: access gate.  A photo, join, start, members, report or pending event
\* in a chat outside a non-empty allow-list changes nothing of the stores and
\* sends nothing; in a permitted chat it is processed (start, members, report
\* and pending answer or fail at the live count, a join of a member and a
\* photo of a user put the user on the roster); the id command answers in
\* every chat.
C11_AccessGate ==
    [][LET h == handled' IN
       /\ (h.op \in GatedOps /\ ~Permitted(h.chat)) =>
              (store' = store /\ out' = <<>> /\ h.raised = "none")
       /\ (h.op = "start" /\ Permitted(h.chat)) => out' = <<Welcome(h.chat)>>
       /\ (h.op = "cmd_members" /\ Permitted(h.chat)) =>
              \/ h.raised = "oracle"
              \/ Len(out') = 1 /\ out'[1].kind = "members"
       /\ (h.op = "cmd_report" /\ Permitted(h.chat)) =>
              \/ h.raised = "oracle"
              \/ out' # <<>> /\ out'[1].kind = "summary"
       /\ (h.op = "cmd_pending" /\ Permitted(h.chat)) =>
              Len(out') = 1 /\ out'[1].kind \in {"pending", "nothing_pending"}
       /\ h.op = "cmd_id" => out' = <<ChatIdReply(h.chat)>>
       /\ (h.op = "handle_photo" /\ Permitted(h.chat)) =>
              \A u \in CoreUsers :
                  handle_photo(h.chat, u, "Asha", "09:15", NoGroup, {TRUE})
                      => u \in DOMAIN known_users'[h.chat]
       /\ (h.op = "track_new_members" /\ Permitted(h.chat)) =>
              \A u \in CoreUsers :
                  track_new_members(h.chat, u, "Asha", "member")
                      => u \in DOMAIN known_users'[h.chat]
      ]_vars

\* under the allow-list {-1001}: the other chat was sent every kind of event
\* and has nothing, the id command has just answered there, and the listed
\* chat has a submission
C11_Witness ==
    /\ ALLOWED_CHAT_IDS = {-1001}
    /\ Recorded(-1001, today, 11)
    /\ album_events # {}
    /\ handled = Done("cmd_id", -1002, "none")
    /\ out = <<ChatIdReply(-1002)>>
    /\ known_users[-1002] = EmptyDict
    /\ submissions[-1002] = EmptyDict

Cells == Chats \X Days \X Users
RecordedIn(subs, cell) == SubmissionOf(subs, cell[1], cell[2], cell[3]) # NoSub
Confirmations(msgs) ==
    LET is_confirm(m) == m.kind = "confirm" IN SelectSeq(msgs, is_confirm)

\* C12: confirmation only on Recorded.  A photo event attempts a confirmation
\* exactly when it creates a Submission, and then one, in the chat and with
\* the name of the one Submission created, which is of today; a photo that is
\* a duplicate or a later photo of an album sends nothing; no other handler
\* confirms; a Submission once created stays, so it is created, and confirmed,
\* at most once per (chat, date, user).
C12_ConfirmationOnlyOnRecorded ==
    [][IF submissions' = submissions
       THEN Confirmations(out') = <<>>
       ELSE
       LET created == {cell \in Cells : /\ ~RecordedIn(submissions, cell)
                                        /\ RecordedIn(submissions', cell)}
       IN
       /\ \A cell \in Cells :
              RecordedIn(submissions, cell) => RecordedIn(submissions', cell)
       /\ Len(Confirmations(out')) <= 1
       /\ (Confirmations(out') # <<>>) <=> (created # {})
       /\ created # {} =>
              /\ handled'.op = "handle_photo"
              /\ Cardinality(created) = 1
              /\ \A cell \in created :
                     /\ cell[1] = handled'.chat
                     /\ cell[2] = today
                     /\ out' = <<Confirmation(cell[1],
                                   SubmissionOf(submissions', cell[1], cell[2],
                                                cell[3]).name)>>
       /\ (handled'.op = "handle_photo" /\ created = {}) => out' = <<>>
      ]_vars

\* the second day's first photo of a user who sent an album the day before has
\* just been recorded, and the confirmation of it was attempted and failed
C12_Witness ==
    /\ today = 2
    /\ Recorded(-1001, 1, 11)
    /\ Recorded(-1001, 2, 11)
    /\ media_group_seen # {}
    /\ out = <<Confirmation(-1001, "User")>>
    /\ handled = Done("handle_photo", -1001, "send")

SeenInChat(c, g) == \E d \in Days : <<c, d, g>> \in album_events

\* C13: chat independence.  What a photo does in a chat depends on that chat
\* alone: the first photo of the day of a user, carrying a media group id
\* that no photo of this chat has carried before, is recorded, whatever ids
\* the photos of the other chats carried.
C13_ChatIndependence ==
    [][\A c \in Chats, u \in CoreUsers, g \in MediaGroups :
          ( /\ Permitted(c)
            /\ ~Recorded(c, today, u)
            /\ ~SeenInChat(c, g)
            /\ handle_photo(c, u, "Asha", "09:15", g, {TRUE}) )
          => RecordedIn(submissions', <<c, today, u>>)
      ]_vars

SeenElsewhere(c, g) == \E c2 \in Chats \ {c} : SeenInChat(c2, g)

\* C15: album dedupe is scoped to the day.  The first photo of the day of a
\* user, carrying a media group id that no photo of this chat has carried
\* today (and none of another chat ever), is recorded, also when the chat
\* saw the id on an earlier day.
C15_AlbumScopedToDay ==
    [][\A c \in Chats, u \in CoreUsers, g \in MediaGroups :
          ( /\ Permitted(c)
            /\ ~Recorded(c, today, u)
            /\ <<c, today, g>> \notin album_events
            /\ ~SeenElsewhere(c, g)
            /\ handle_photo(c, u, "Asha", "09:15", g, {TRUE}) )
          => RecordedIn(submissions', <<c, today, u>>)
      ]_vars

PendingAsked == handled.op = "cmd_pending" /\ Permitted(handled.chat)
PendingUsers(c) == member_ids(c) \ today_ids(c)
NamesOf(c, ids) == {known_users[c][u] : u \in ids}
Shown(msg) == {msg.preview[i] : i \in 1..Len(msg.preview)}

\* what the reply of the pending command says in every case: the count of the
\* roster users without a Submission today, and "nothing pending" exactly
\* when there is none
PendingFigures(c) ==
    IF member_ids(c) \subseteq today_ids(c)
    THEN out = <<NothingPending(c)>>
    ELSE /\ Len(out) = 1
         /\ out[1].kind = "pending"
         /\ out[1].count = Cardinality(member_ids(c))
                           - Cardinality(member_ids(c) \cap today_ids(c))
         /\ Shown(out[1]) \cap NamesOf(c, today_ids(c)) = {}

\* C14 as stated: the pending command lists exactly the roster users with no
\* Submission today.
C14_PendingLists ==
    PendingAsked =>
        /\ PendingFigures(handled.chat)
        /\ PendingUsers(handled.chat) # {} =>
               Shown(out[1]) = NamesOf(handled.chat, PendingUsers(handled.chat))

\* C14 (amended): the pending command reports the count of the roster users
\* with no Submission today and lists the names of PreviewLimit of them at
\* most, each once and none of a user who submitted today, with an ellipsis
\* exactly when more are pending; "nothing pending" is the reply exactly when
\* every roster user has submitted today.
C14_PendingPreview ==
    PendingAsked =>
        /\ PendingFigures(handled.chat)
        /\ PendingUsers(handled.chat) # {} =>
               LET c == handled.chat
                   n == Cardinality(PendingUsers(c)) IN
               /\ Shown(out[1]) \subseteq NamesOf(c, PendingUsers(c))
               /\ Len(out[1].preview) = Min(PreviewLimit, n)
               /\ Cardinality(Shown(out[1])) = Min(PreviewLimit, n)
               /\ out[1].ellipsis <=> n > PreviewLimit

\* more users than the preview holds are pending while one has submitted
C14_Witness ==
    /\ PendingAsked
    /\ Cardinality(PendingUsers(-1001)) > PreviewLimit
    /\ today_ids(-1001) = {12}
    /\ Len(out) = 1
    /\ out[1].kind = "pending"
    /\ out[1].ellipsis

Kinds(msgs) == [i \in 1..Len(msgs) |-> msgs[i].kind]
HasAward(msgs) == \E i \in 1..Len(msgs) : msgs[i].kind = "award"

\* C16: summary before awards.  The awards announcements of a report command
\* come after its summary message, and the awards job of a scheduled tick
\* announces only when the summary job of the same tick has sent its
\* message.
C16_SummaryBeforeAwards ==
    [][ /\ (handled'.op = "cmd_report" /\ HasAward(out')) =>
               /\ Kinds(out')[1] = "summary"
               /\ \A i \in 2..Len(out') : Kinds(out')[i] = "award"
        /\ (handled'.op = "job_awards" /\ HasAward(out')) =>
               Task("job_summary", handled'.chat, NoUser, "sent") \in tasks
      ]_vars

InFlight(c, u) == Task("handle_photo", c, u, "send") \in tasks

\* C17: the streak is updated at most once per (chat, user, date), also with
\* handlers suspended at their sends and at the live count.  A step changes
\* the streak or the last date of a user only together with the creation of
\* the user's Submission of today, which did not exist before the step; a
\* Submission once created stays; and a handle_photo is suspended only after
\* its Submission is made.
C17_StreakOncePerDay ==
    [][ /\ \A c \in Chats, u \in CoreUsers :
              ( \/ StreakOf(c, u)' # StreakOf(c, u)
                \/ LastDateOf(c, u)' # LastDateOf(c, u) ) =>
                  /\ ~Recorded(c, today, u)
                  /\ Recorded(c, today, u)'
                  /\ today' = today
                  /\ LastDateOf(c, u)' = today
        /\ \A c \in Chats, u \in CoreUsers, d \in Days :
              Recorded(c, d, u) => Recorded(c, d, u)'
        /\ \A c \in Chats, u \in CoreUsers :
              InFlight(c, u)' => \E d \in Days : Recorded(c, d, u)'
      ]_vars

\* user 11 sent a second photo while the confirmation of the first one of
\* the day was still in flight, with a tick of the chat under way: the
\* second one changed nothing
C17_Witness ==
    /\ InFlight(-1001, 11)
    /\ member_ids(-1001) = {11}
    /\ handled = Done("handle_photo", -1001, "none")
    /\ out = <<>>
    /\ StreakOf(-1001, 11) = 1
    /\ Task("job_summary", -1001, NoUser, "count") \in tasks

SubmissionDays(c, u) == {d \in Days : Recorded(c, d, u)}
LatestDay(c, u) == CHOOSE d \in SubmissionDays(c, u) :
                       \A e \in SubmissionDays(c, u) : e <= d
\* the length of the longest run of consecutive days with a Submission that
\* ends on day d
RunEndingAt(c, u, d) ==
    CHOOSE n \in 0..MaxDay :
        /\ \A k \in 0..(n - 1) : (d - k) \in SubmissionDays(c, u)
        /\ (d - n) \notin SubmissionDays(c, u)

\* C18: the streak matches the submission history.  For a user with a
\* Submission in a chat the last date is the latest day with one and the
\* streak is the length of the run of consecutive days with one that ends on
\* that day, at least 1; a user with none has no streak and no last date.
C18_StreakMatchesHistory ==
    \A c \in Chats, u \in CoreUsers :
        IF SubmissionDays(c, u) = {}
        THEN /\ u \notin DOMAIN streaks[c]
             /\ u \notin DOMAIN last_submission_date[c]
        ELSE /\ LastDateOf(c, u) = LatestDay(c, u)
             /\ StreakOf(c, u) = RunEndingAt(c, u, LatestDay(c, u))
             /\ StreakOf(c, u) >= 1

\* on the last day, a user who posted on the first and the last day only has
\* streak 1 while one who posted on every day has the number of days
C18_Witness ==
    /\ today = MaxDay
    /\ SubmissionDays(-1001, 11) = {1, MaxDay}
    /\ StreakOf(-1001, 11) = 1
    /\ SubmissionDays(-1001, 12) = Days
    /\ StreakOf(-1001, 12) = MaxDay

\* C19: the roster only grows and covers all submitters.  No step removes a
\* user from the roster of a chat, a membership change to a status that is
\* neither member nor administrator changes no store, and every user with a
\* Submission in a chat on any date is in the roster of the chat.
C19_RosterGrows ==
    [][ /\ \A c \in Chats : member_ids(c) \subseteq DOMAIN known_users'[c]
        /\ \A c \in Chats, u \in CoreUsers, n \in FirstNames :
              track_new_members(c, u, n, "left") => store' = store
        /\ \A c \in Chats, d \in Days, u \in CoreUsers :
              RecordedIn(submissions', <<c, d, u>>) => u \in DOMAIN known_users'[c]
      ]_vars

\* on the second day, after a membership change: one user is on the roster
\* by joining only, the other by a photo of the day before
C19_Witness ==
    /\ member_ids(-1001) = {11, 12}
    /\ SubmissionDays(-1001, 11) = {}
    /\ SubmissionDays(-1001, 12) = {1}
    /\ handled = Done("track_new_members", -1001, "none")
    /\ today = 2

\* the stores of the program, without the history variable
ProgramStores == <<submissions, streaks, last_submission_date, known_users,
                   media_group_seen>>

\* C20: a missing actor is ignored.  A photo event with no resolvable user
\* changes none of the stores (submissions, streaks, last dates, roster,
\* album-dedupe set) and sends nothing.
C20_MissingActorIgnored ==
    [][\A c \in Chats, g \in MediaGroups \cup {NoGroup} :
          handle_photo(c, NoUser, "Asha", "09:15", g, {TRUE}) =>
              /\ ProgramStores' = ProgramStores
              /\ out' = <<>>
      ]_vars
====
